---- MODULE Spec2Model ----
(***************************************************************************)
(* A model of src/src/function_app.py: the MCP tool handlers get_snippet,  *)
(* save_snippet and search_snippets over the "snippets" blob container.    *)
(*                                                                         *)
(* Text is a sequence of Unicode code points; a blob holds the sequence of *)
(* UTF-8 bytes the host wrote.  A similarity is a number of hundredths     *)
(* (70 is 0.7).  One action is one tool invocation, from the               *)
(* arrival of the request to the value (or the exception) that leaves the  *)
(* handler.  The object store and the embedding service are outside the    *)
(* source: the order in which the store lists its blobs, the similarity    *)
(* of every snippet and the call that fails are chosen by the environment. *)
(***************************************************************************)
EXTENDS Integers, Sequences, FiniteSets, TLC

\* ------------------------------------------------------------- bounds
\* The most blobs the container holds.
MaxSnippets == 2

\* ---------------------------------------------------------- constants
SNIPPET_NAME_PROPERTY_NAME == "snippetname"
SNIPPET_PROPERTY_NAME == "snippet"
SEARCH_QUERY_PROPERTY_NAME == "query"

\* ".json", the extension _BLOB_PATH appends to the snippet name.
JsonExt == <<46, 106, 115, 111, 110>>

\* "...", the marker appended to a truncated preview.
Ellipsis == <<46, 46, 46>>

\* len(snippet_content) > 100 and snippet_content[:100]
PreviewLimit == 100

\* similarity > 0.7, in hundredths
Threshold == 70

\* ------------------------------------------------------------- inputs
\* "", "a", "b" and "a.json"
Names == {<<>>, <<97>>, <<98>>, <<97, 46, 106, 115, 111, 110>>}

\* A text of n code points that mixes 1-, 2- and 3-byte characters.
Text(n) == [i \in 1..n |-> IF i % 7 = 0 THEN 8364 ELSE IF i % 3 = 0 THEN 233 ELSE 99]

\* The contents a request can carry: "", and texts of exactly PreviewLimit
\* and PreviewLimit + 1 characters (both longer than PreviewLimit in bytes).
Contents == {<<>>, Text(PreviewLimit), Text(PreviewLimit + 1)}

\* "" and "q"
Queries == {<<>>, <<113>>}

\* The similarities the scorer can return: at the threshold and two above
\* it.  (Zero vectors, for which the quotient is NaN, are outside the
\* scorer's precondition.)
Scores == {Threshold, Threshold + 1, 85}

\* ------------------------------------------------------------ strings
\* bytes.decode("utf-8") and str.encode("utf-8"), for code points below 2^16.
EncodeChar(c) ==
    IF c < 128 THEN <<c>>
    ELSE IF c < 2048 THEN <<192 + (c \div 64), 128 + (c % 64)>>
    ELSE <<224 + (c \div 4096), 128 + ((c \div 64) % 64), 128 + (c % 64)>>

\* The bytes of a text: those of its halves, one after the other.
RECURSIVE Encode(_)
Encode(s) ==
    IF s = <<>> THEN <<>>
    ELSE IF Len(s) = 1 THEN EncodeChar(s[1])
    ELSE Encode(SubSeq(s, 1, Len(s) \div 2))
             \o Encode(SubSeq(s, Len(s) \div 2 + 1, Len(s)))

\* A byte that starts a character (not one of 10xxxxxx).
IsLead(x) == x < 128 \/ x >= 192

\* The text of well-formed bytes.  Four bytes or more are cut at the first
\* character boundary from the middle on (a character has at most three
\* bytes) and the two parts decoded one after the other.
RECURSIVE Decode(_)
Decode(b) ==
    IF b = <<>> THEN <<>>
    ELSE IF Len(b) >= 4
    THEN LET mid == Len(b) \div 2
             cut == CHOOSE i \in mid..(mid + 2) :
                        IsLead(b[i]) /\ \A j \in mid..(i - 1) : ~IsLead(b[j])
         IN  Decode(SubSeq(b, 1, cut - 1)) \o Decode(SubSeq(b, cut, Len(b)))
    ELSE IF b[1] < 128 THEN <<b[1]>> \o Decode(Tail(b))
    ELSE IF b[1] < 224
         THEN <<(b[1] - 192) * 64 + (b[2] - 128)>> \o Decode(SubSeq(b, 3, Len(b)))
    ELSE <<(b[1] - 224) * 4096 + (b[2] - 128) * 64 + (b[3] - 128)>>
             \o Decode(SubSeq(b, 4, Len(b)))

StartsWith(s, p) == Len(s) >= Len(p) /\ SubSeq(s, 1, Len(p)) = p

\* str.replace(old, new): every non-overlapping occurrence, left to right.
RECURSIVE Replace(_, _, _)
Replace(s, old, new) ==
    IF s = <<>> THEN <<>>
    ELSE IF StartsWith(s, old)
         THEN new \o Replace(SubSeq(s, Len(old) + 1, Len(s)), old, new)
    ELSE <<Head(s)>> \o Replace(Tail(s), old, new)

\* A path that does not use the snippet name: "snippets/snippet.json".
BLOB_PATH_fixed(name) == <<115, 110, 105, 112, 112, 101, 116>> \o JsonExt

\* The blob of the "snippets" container that _BLOB_PATH binds to a name.
BLOB_PATH(name) == name \o JsonExt

\* ------------------------------------------------------------- state
VARIABLES
    blobs,      \* the "snippets" container: blob name -> UTF-8 bytes
    tool,       \* the tool of the last invocation ("none" before the first)
    arguments,  \* content["arguments"] of the last invocation
    outcome,    \* "returned": the handler returned response; "raised": an
                \* exception left the invocation uncaught
    response,   \* the value returned, or the exception raised
    storeCalls, \* object-store calls made by the handler body of the last invocation
    embedCalls, \* generate_embeddings calls made by the last invocation
    fault,      \* history: the external call the environment made fail
    enumerated, \* history: the blob names in the order list_blobs gave them
                \* (empty if list_blobs raised)
    sims,       \* history: the similarities calculate_similarity returned
    resultPos,  \* history: for each item of "results", its place in enumerated
    saved       \* history: name -> content of the last save_snippet call that
                \* returned, was made with that name and had non-empty content

vars == <<blobs, tool, arguments, outcome, response, storeCalls, embedCalls,
          fault, enumerated, sims, resultPos, saved>>

NoFault == [at |-> "none", k |-> 0]

\* content["arguments"] of a request: any of the tool's keys may be absent.
GetArguments == {<<>>} \cup {(SNIPPET_NAME_PROPERTY_NAME :> n) : n \in Names}

SaveArguments ==
    GetArguments
    \cup {(SNIPPET_PROPERTY_NAME :> c) : c \in Contents}
    \cup {(SNIPPET_NAME_PROPERTY_NAME :> n) @@ (SNIPPET_PROPERTY_NAME :> c) :
             n \in Names, c \in Contents}

SearchArguments == {<<>>} \cup {(SEARCH_QUERY_PROPERTY_NAME :> q) : q \in Queries}

\* f with f[k] = v, k added to the domain if new.
Put(f, k, v) == [x \in DOMAIN f \cup {k} |-> IF x = k THEN v ELSE f[x]]

\* ------------------------------------------------------------ hello_mcp
hello_mcp == [raised |-> "", value |-> [text |-> "Hello I am MCPTool!"]]

\* ----------------------------------------------------------- get_snippet
\* The blob input binding: the stream of the blob at path, or None.
InputBinding(store, path) ==
    IF path \in DOMAIN store
    THEN [present |-> TRUE, bytes |-> store[path]]
    ELSE [present |-> FALSE, bytes |-> <<>>]

get_snippet(file) ==
    IF ~file.present
    THEN [raised |-> "AttributeError", value |-> [exception |-> "AttributeError"]]
    ELSE [raised |-> "", value |-> [text |-> Decode(file.bytes)]]

\* ---------------------------------------------------------- save_snippet
\* out is what file.set received; set is FALSE when file.set was not called.
save_snippet(args) ==
    IF SNIPPET_NAME_PROPERTY_NAME \notin DOMAIN args
       \/ SNIPPET_PROPERTY_NAME \notin DOMAIN args
    THEN [raised |-> "KeyError", value |-> [exception |-> "KeyError"],
          set |-> FALSE, out |-> <<>>]
    ELSE IF args[SNIPPET_NAME_PROPERTY_NAME] = <<>>
    THEN [raised |-> "", value |-> [text |-> "No snippet name provided"],
          set |-> FALSE, out |-> <<>>]
    ELSE IF args[SNIPPET_PROPERTY_NAME] = <<>>
    THEN [raised |-> "", value |-> [text |-> "No snippet content provided"],
          set |-> FALSE, out |-> <<>>]
    ELSE [raised |-> "",
          value |-> [text |-> "Snippet saved successfully",
                     snippet |-> args[SNIPPET_PROPERTY_NAME]],
          set |-> TRUE, out |-> args[SNIPPET_PROPERTY_NAME]]

\* ------------------------------------------------------ list_all_snippets
\* order is the sequence of blob names list_blobs yields.
list_all_snippets(store, order) ==
    [i \in 1..Len(order) |->
        [name |-> Replace(order[i], JsonExt, <<>>),
         content |-> Decode(store[order[i]])]]

\* -------------------------------------------------------- search_snippets
\* similarity >= 0.7
PassesThreshold_inclusive(similarity) == similarity >= Threshold

PassesThreshold(similarity) == similarity > Threshold

\* len(snippet_content) >= 100
Preview_inclusive(snippet_content) ==
    IF Len(snippet_content) >= PreviewLimit
    THEN SubSeq(snippet_content, 1, PreviewLimit) \o Ellipsis
    ELSE snippet_content

Preview(snippet_content) ==
    IF Len(snippet_content) > PreviewLimit
    THEN SubSeq(snippet_content, 1, PreviewLimit) \o Ellipsis
    ELSE snippet_content

\* A loop that catches the failure of a snippet, leaves the loop and keeps
\* the items built so far.
RECURSIVE score_snippets_partial(_, _, _, _, _)
score_snippets_partial(all_snippets, k, sim, flt, results) ==
    IF k > Len(all_snippets)
    THEN [raised |-> "", results |-> results, embedCalls |-> Len(all_snippets)]
    ELSE IF flt.at \in {"embed", "score"} /\ flt.k = k
    THEN [raised |-> "", results |-> results, embedCalls |-> k]
    ELSE score_snippets_partial(all_snippets, k + 1, sim, flt,
            IF PassesThreshold(sim[k])
            THEN Append(results,
                    [name |-> all_snippets[k].name,
                     preview |-> Preview(all_snippets[k].content),
                     similarity |-> sim[k],
                     pos |-> k])
            ELSE results)

\* The loop over all_snippets, from its k-th item on.  sim[k] is what
\* calculate_similarity returns for the k-th snippet; pos is not part of the
\* item, it records the snippet the item was built from.
RECURSIVE score_snippets(_, _, _, _, _)
score_snippets(all_snippets, k, sim, flt, results) ==
    IF k > Len(all_snippets)
    THEN [raised |-> "", results |-> results, embedCalls |-> Len(all_snippets)]
    ELSE IF flt = [at |-> "embed", k |-> k]
    THEN [raised |-> "EmbeddingError", results |-> results, embedCalls |-> k]
    ELSE IF flt = [at |-> "score", k |-> k]
    THEN [raised |-> "ValueError", results |-> results, embedCalls |-> k]
    ELSE score_snippets(all_snippets, k + 1, sim, flt,
            IF PassesThreshold(sim[k])
            THEN Append(results,
                    [name |-> all_snippets[k].name,
                     preview |-> Preview(all_snippets[k].content),
                     similarity |-> sim[k],
                     pos |-> k])
            ELSE results)

\* An insertion that puts r before the items of equal similarity (what
\* sorting ascending and reversing the list does to ties).
RECURSIVE InsertDescending_unstable(_, _)
InsertDescending_unstable(sorted, r) ==
    IF sorted = <<>> THEN <<r>>
    ELSE IF Head(sorted).similarity > r.similarity
         THEN <<Head(sorted)>> \o InsertDescending_unstable(Tail(sorted), r)
    ELSE <<r>> \o sorted

\* list.sort(key=similarity, reverse=True): descending, and stable (items of
\* equal similarity keep their order).
RECURSIVE InsertDescending(_, _)
InsertDescending(sorted, r) ==
    IF sorted = <<>> THEN <<r>>
    ELSE IF Head(sorted).similarity >= r.similarity
         THEN <<Head(sorted)>> \o InsertDescending(Tail(sorted), r)
    ELSE <<r>> \o sorted

\* results.sort(key=similarity) without reverse=True: ascending.
RECURSIVE SortDescending_ascending(_)
SortDescending_ascending(results) ==
    IF results = <<>> THEN <<>>
    ELSE LET rest == SortDescending_ascending(Tail(results))
             r == Head(results)
         IN  SelectSeq(rest, LAMBDA x : x.similarity < r.similarity)
                 \o <<r>>
                 \o SelectSeq(rest, LAMBDA x : x.similarity >= r.similarity)

RECURSIVE SortDescending(_)
SortDescending(results) ==
    IF results = <<>> THEN <<>>
    ELSE InsertDescending(SortDescending(SubSeq(results, 1, Len(results) - 1)),
                          results[Len(results)])

Item(r) == [name |-> r.name, preview |-> r.preview, similarity |-> r.similarity]

\* The try block from the query embedding on, for a corpus that is not empty.
rank_nonempty(all_snippets, sim, flt) ==
    IF flt = [at |-> "embed", k |-> 0]
    THEN [raised |-> "EmbeddingError", embedCalls |-> 1, pos |-> <<>>,
          value |-> <<>>]
    ELSE LET loop == score_snippets(all_snippets, 1, sim, flt, <<>>)
             sorted == SortDescending(loop.results)
         IN  IF loop.raised # ""
             THEN [raised |-> loop.raised, embedCalls |-> 1 + loop.embedCalls,
                   pos |-> <<>>, value |-> <<>>]
             ELSE [raised |-> "", embedCalls |-> 1 + loop.embedCalls,
                   pos |-> [i \in 1..Len(sorted) |-> sorted[i].pos],
                   value |-> [results |-> [i \in 1..Len(sorted) |-> Item(sorted[i])]]]

\* A try block that embeds the query before it looks at the corpus.
rank_snippets_embed_first(all_snippets, sim, flt) ==
    IF all_snippets = <<>>
    THEN [raised |-> "", embedCalls |-> 1, pos |-> <<>>,
          value |-> [results |-> <<>>, message |-> "No snippets found to search"]]
    ELSE rank_nonempty(all_snippets, sim, flt)

\* The body of the try block once the corpus is loaded.
rank_snippets(all_snippets, sim, flt) ==
    IF all_snippets = <<>>
    THEN [raised |-> "", embedCalls |-> 0, pos |-> <<>>,
          value |-> [results |-> <<>>, message |-> "No snippets found to search"]]
    ELSE rank_nonempty(all_snippets, sim, flt)

\* loaded is what list_all_snippets returns when it does not raise.
search_snippets(args, loaded, sim, flt) ==
    IF SEARCH_QUERY_PROPERTY_NAME \notin DOMAIN args
    THEN [outcome |-> "raised", response |-> [exception |-> "KeyError"],
          storeCalls |-> 0, embedCalls |-> 0, pos |-> <<>>]
    ELSE IF args[SEARCH_QUERY_PROPERTY_NAME] = <<>>
    THEN [outcome |-> "returned", response |-> [error |-> "No search query provided"],
          storeCalls |-> 0, embedCalls |-> 0, pos |-> <<>>]
    ELSE IF flt.at = "load"
    THEN [outcome |-> "returned", response |-> [error |-> "StorageError"],
          storeCalls |-> 1 + flt.k, embedCalls |-> 0, pos |-> <<>>]
    ELSE LET r == rank_snippets(loaded, sim, flt)
         IN  [outcome |-> "returned",
              response |-> IF r.raised # "" THEN [error |-> r.raised] ELSE r.value,
              storeCalls |-> 1 + Len(loaded), embedCalls |-> r.embedCalls,
              pos |-> r.pos]

\* -------------------------------------------------------- environment
\* The orders in which list_blobs can yield the blobs of the container.
Orders(S) ==
    {o \in [1..Cardinality(S) -> S] : \A i, j \in 1..Cardinality(S) : o[i] = o[j] => i = j}

\* What the store and the embedding service do during one search over n
\* snippets: every call succeeds, or list_all_snippets raises (in list_blobs
\* for k = 0, in the download of the k-th blob otherwise), or the k-th
\* generate_embeddings call raises (k = 0 is the query's), or
\* calculate_similarity raises on the k-th snippet.  sim holds the
\* similarities of the snippets scored before that.
Environments(n) ==
    {[fault |-> NoFault, sim |-> s] : s \in [1..n -> Scores]}
    \cup {[fault |-> [at |-> "load", k |-> k], sim |-> <<>>] : k \in 0..n}
    \cup UNION {{[fault |-> [at |-> "embed", k |-> k], sim |-> s] :
                    s \in [1..(k - 1) -> Scores]} :
                k \in IF n = 0 THEN {} ELSE 0..n}
    \cup UNION {{[fault |-> [at |-> "score", k |-> k], sim |-> s] :
                    s \in [1..(k - 1) -> Scores]} : k \in 1..n}

\* The request reaches the try block of search_snippets.
HasQuery(args) ==
    /\ SEARCH_QUERY_PROPERTY_NAME \in DOMAIN args
    /\ args[SEARCH_QUERY_PROPERTY_NAME] # <<>>

\* ------------------------------------------------------------- actions
Init ==
    /\ blobs = <<>>
    /\ tool = "none"
    /\ arguments = <<>>
    /\ outcome = "none"
    /\ response = <<>>
    /\ storeCalls = 0
    /\ embedCalls = 0
    /\ fault = NoFault
    /\ enumerated = <<>>
    /\ sims = <<>>
    /\ resultPos = <<>>
    /\ saved = <<>>

HelloMcp ==
    /\ tool' = "hello_mcp"
    /\ arguments' = <<>>
    /\ outcome' = "returned"
    /\ response' = hello_mcp.value
    /\ storeCalls' = 0
    /\ embedCalls' = 0
    /\ fault' = NoFault
    /\ enumerated' = <<>>
    /\ sims' = <<>>
    /\ resultPos' = <<>>
    /\ UNCHANGED <<blobs, saved>>

\* The host resolves the blob path from the arguments and reads the blob,
\* then runs get_snippet.
GetSnippet ==
    \E args \in GetArguments, readFails \in BOOLEAN :
    \E bound \in {SNIPPET_NAME_PROPERTY_NAME \in DOMAIN args} :
    \E r \in {IF bound
              THEN get_snippet(InputBinding(blobs,
                                   BLOB_PATH(args[SNIPPET_NAME_PROPERTY_NAME])))
              ELSE [raised |-> "BindingError", value |-> [exception |-> "BindingError"]]} :
        /\ readFails => bound
        /\ tool' = "get_snippet"
        /\ arguments' = args
        /\ outcome' = IF readFails THEN "raised"
                      ELSE IF r.raised # "" THEN "raised" ELSE "returned"
        /\ response' = IF readFails THEN [exception |-> "StorageError"] ELSE r.value
        /\ fault' = IF readFails THEN [at |-> "read", k |-> 0] ELSE NoFault
        /\ storeCalls' = 0
        /\ embedCalls' = 0
        /\ enumerated' = <<>>
        /\ sims' = <<>>
        /\ resultPos' = <<>>
        /\ UNCHANGED <<blobs, saved>>

\* The host runs save_snippet and, if it returned, writes what file.set
\* received to the blob the path names.
SaveSnippet ==
    \E args \in SaveArguments, writeFails \in BOOLEAN :
    \E r \in {save_snippet(args)} :
    \E path \in {IF r.set THEN BLOB_PATH(args[SNIPPET_NAME_PROPERTY_NAME]) ELSE <<>>} :
        /\ writeFails => r.set
        /\ r.set => Cardinality(DOMAIN blobs \cup {path}) <= MaxSnippets
        /\ tool' = "save_snippet"
        /\ arguments' = args
        /\ outcome' = IF r.raised # "" THEN "raised"
                      ELSE IF writeFails THEN "raised" ELSE "returned"
        /\ response' = IF writeFails THEN [exception |-> "StorageError"] ELSE r.value
        /\ fault' = IF writeFails THEN [at |-> "write", k |-> 0] ELSE NoFault
        /\ blobs' = IF r.set /\ ~writeFails THEN Put(blobs, path, Encode(r.out))
                    ELSE blobs
        /\ saved' = IF r.raised = "" /\ ~writeFails
                       /\ args[SNIPPET_PROPERTY_NAME] # <<>>
                    THEN Put(saved, args[SNIPPET_NAME_PROPERTY_NAME],
                             args[SNIPPET_PROPERTY_NAME])
                    ELSE saved
        /\ storeCalls' = 0
        /\ embedCalls' = 0
        /\ enumerated' = <<>>
        /\ sims' = <<>>
        /\ resultPos' = <<>>

SearchSnippets ==
    \E args \in SearchArguments :
    \E order \in IF HasQuery(args) THEN Orders(DOMAIN blobs) ELSE {<<>>} :
    \E loaded \in {list_all_snippets(blobs, order)} :
    \E env \in IF HasQuery(args) THEN Environments(Len(order))
               ELSE {[fault |-> NoFault, sim |-> <<>>]} :
    \E r \in {search_snippets(args, loaded, env.sim, env.fault)} :
        /\ tool' = "search_snippets"
        /\ arguments' = args
        /\ outcome' = r.outcome
        /\ response' = r.response
        /\ storeCalls' = r.storeCalls
        /\ embedCalls' = r.embedCalls
        /\ fault' = env.fault
        /\ enumerated' = IF env.fault = [at |-> "load", k |-> 0] THEN <<>> ELSE order
        /\ sims' = env.sim
        /\ resultPos' = r.pos
        /\ UNCHANGED <<blobs, saved>>

Next == HelloMcp \/ GetSnippet \/ SaveSnippet \/ SearchSnippets

Spec == Init /\ [][Next]_vars

\* ---------------------------------------------------------- properties
IsSearch == tool = "search_snippets"

\* The last invocation was a search that returned a "results" list.
HasResults == IsSearch /\ outcome = "returned" /\ "results" \in DOMAIN response

\* The content of the snippet the i-th result was built from.
ContentOf(i) == Decode(blobs[enumerated[resultPos[i]]])

\* C1: a successful search returns exactly the snippets whose similarity is
\* strictly greater than 0.7: every item comes from one snippet and carries
\* its similarity, which is above 0.7, and every snippet above 0.7 has its
\* item.
C1_ExactlyAboveThreshold ==
    HasResults =>
        /\ Len(resultPos) = Len(response.results)
        /\ \A i \in 1..Len(resultPos) :
              /\ resultPos[i] \in 1..Len(enumerated)
              /\ response.results[i].similarity = sims[resultPos[i]]
              /\ response.results[i].similarity > 70
        /\ \A i, j \in 1..Len(resultPos) : resultPos[i] = resultPos[j] => i = j
        /\ \A p \in 1..Len(enumerated) :
              sims[p] > 70 => \E i \in 1..Len(resultPos) : resultPos[i] = p

\* A search over two snippets, one exactly at 0.7 and one above: one result.
C1_Witness ==
    /\ HasResults
    /\ Len(enumerated) = 2
    /\ \E p, q \in 1..2 : sims[p] = 70 /\ sims[q] > 70
    /\ Len(response.results) = 1

\* C2: the results of a successful search are sorted by similarity,
\* descending: no item has a smaller similarity than the item after it.
C2_SortedDescending ==
    HasResults =>
        \A i \in 1..(Len(response.results) - 1) :
            response.results[i].similarity >= response.results[i + 1].similarity

\* Two snippets pass, the store listed the less similar one first, and the
\* search returned them in the other order.
C2_Witness ==
    /\ HasResults
    /\ Len(response.results) = 2
    /\ sims[1] < sims[2]
    /\ resultPos = <<2, 1>>

\* C3: a search whose query is missing (absent from the arguments, or the
\* empty string) returns {"error": "No search query provided"} and calls
\* neither the object store nor the embedding service.
C3_MissingQueryReported ==
    (IsSearch /\ ~HasQuery(arguments)) =>
        /\ outcome = "returned"
        /\ response = [error |-> "No search query provided"]
        /\ storeCalls = 0
        /\ embedCalls = 0

\* C4: a search with a non-empty query over a corpus that loads with zero
\* snippets returns {"results": [], "message": "No snippets found to
\* search"} and has made no embedding call.
C4_EmptyCorpusBeforeEmbedding ==
    (IsSearch /\ HasQuery(arguments) /\ fault.at # "load" /\ enumerated = <<>>) =>
        /\ outcome = "returned"
        /\ response = [results |-> <<>>, message |-> "No snippets found to search"]
        /\ embedCalls = 0

\* A search with a query over the empty container, with no failure.
C4_Witness ==
    /\ IsSearch
    /\ HasQuery(arguments)
    /\ fault = NoFault
    /\ DOMAIN blobs = {}
    /\ "message" \in DOMAIN response

\* C5: when the corpus load, the query embedding, or the embedding or the
\* scoring of the k-th snippet raises, the search returns a response whose
\* only key is "error" (no results, whatever had passed the threshold), the
\* failing call is the last embedding call, and nothing is called again.
C5_FailFastNoPartialResults ==
    (IsSearch /\ HasQuery(arguments) /\ fault.at \in {"load", "embed", "score"}) =>
        /\ outcome = "returned"
        /\ DOMAIN response = {"error"}
        /\ resultPos = <<>>
        /\ embedCalls = (IF fault.at = "load" THEN 0 ELSE fault.k + 1)
        /\ storeCalls = (IF fault.at = "load" THEN 1 + fault.k ELSE 1 + Len(enumerated))

\* The embedding of the second snippet raised after the first snippet had
\* passed the threshold.
C5_Witness ==
    /\ IsSearch
    /\ fault = [at |-> "embed", k |-> 2]
    /\ sims[1] > 70
    /\ "error" \in DOMAIN response

\* The last invocation was a get_snippet whose blob read did not fail, for
\* a name some returned save_snippet call carried with non-empty content.
GetOfSaved ==
    /\ tool = "get_snippet"
    /\ fault = NoFault
    /\ SNIPPET_NAME_PROPERTY_NAME \in DOMAIN arguments
    /\ arguments[SNIPPET_NAME_PROPERTY_NAME] \in DOMAIN saved

\* C6 as stated: get_snippet for a name n returns the content of the most
\* recent save_snippet call made with name n and non-empty content.
C6_GetReturnsLastSave ==
    GetOfSaved =>
        /\ outcome = "returned"
        /\ response = [text |-> saved[arguments[SNIPPET_NAME_PROPERTY_NAME]]]

\* C6, amended: get_snippet for a non-empty name n returns the content of
\* the most recent save_snippet call made with name n and non-empty content
\* (a save with an empty name stores nothing).
C6_GetReturnsLastSaveOfNonEmptyName ==
    (GetOfSaved /\ arguments[SNIPPET_NAME_PROPERTY_NAME] # <<>>) =>
        /\ outcome = "returned"
        /\ response = [text |-> saved[arguments[SNIPPET_NAME_PROPERTY_NAME]]]

\* A get of a saved name while another name is stored as well, with a
\* different content.
C6_Witness ==
    /\ GetOfSaved
    /\ arguments[SNIPPET_NAME_PROPERTY_NAME] # <<>>
    /\ outcome = "returned"
    /\ \E other \in DOMAIN blobs :
          /\ other # BLOB_PATH(arguments[SNIPPET_NAME_PROPERTY_NAME])
          /\ Decode(blobs[other]) # response.text

\* C7: no tool invocation ends with an uncaught exception.
C7_NoUncaughtException == outcome # "raised"

\* C8: the preview of a result is the content itself when the content has
\* at most 100 characters, and its first 100 characters followed by "..."
\* (103 characters) when it has more.
C8_PreviewTruncation ==
    HasResults =>
        \A i \in 1..Len(response.results) :
            /\ Len(ContentOf(i)) <= 100 => response.results[i].preview = ContentOf(i)
            /\ Len(ContentOf(i)) > 100 =>
                  /\ response.results[i].preview
                        = SubSeq(ContentOf(i), 1, 100) \o <<46, 46, 46>>
                  /\ Len(response.results[i].preview) = 103

\* A search returned a snippet of exactly 100 characters and one of 101.
C8_Witness ==
    /\ HasResults
    /\ \E i, j \in 1..Len(response.results) :
          /\ Len(ContentOf(i)) = 100
          /\ Len(ContentOf(j)) = 101

\* C9: results of equal similarity are in the order in which the corpus
\* loader enumerated their snippets.
C9_TiesInEnumerationOrder ==
    HasResults =>
        \A i, j \in 1..Len(response.results) :
            (i < j /\ response.results[i].similarity = response.results[j].similarity)
                => resultPos[i] < resultPos[j]

\* Two snippets passed with the same similarity.
C9_Witness ==
    /\ HasResults
    /\ Len(response.results) = 2
    /\ response.results[1].similarity = response.results[2].similarity

\* C10: the name of every search result is the name its snippet was saved
\* under (the name get_snippet takes for that blob), and no two results of
\* different snippets carry the same name.
C10_ResultNameIsSavedName ==
    HasResults =>
        /\ \A i \in 1..Len(response.results) :
              BLOB_PATH(response.results[i].name) = enumerated[resultPos[i]]
        /\ \A i, j \in 1..Len(response.results) :
              response.results[i].name = response.results[j].name => i = j

====
